---- MODULE Spec2Model ----
(***************************************************************************)
(* A model of chessGo (src/main.go): the Game state of each peer, the move *)
(* generator, applyMove, handleMouseClick, the input loop and the          *)
(* background reader of Game.play, and the line protocol between peers.    *)
(*                                                                         *)
(* Strings that the program computes on (the move notation) are sequences  *)
(* of byte values; messages are TLA+ strings.                              *)
(***************************************************************************)
EXTENDS Integers, Sequences, FiniteSets, TLC

(***************************************************************************)
(* Bounds of the model.                                                    *)
(***************************************************************************)
\* applyMove calls in a run of one process against an arbitrary peer
MaxMoves == 2
\* applyMove calls (over both peers) in a run of the two-peer system
MaxNetMoves == 5
\* applyMove calls in a run of one process taken statement by statement
MaxFineMoves == 2

(***************************************************************************)
(* Program constants.                                                      *)
(***************************************************************************)
\* NewGame: squareWidth, squareHeight
squareWidth == 8
squareHeight == 4
\* len(themes)
NumThemes == 5
\* the board is [8][8]*Piece
BoardSize == 8

Rows == 0 .. (BoardSize - 1)
Cols == 0 .. (BoardSize - 1)

\* var pieces: the rune of each piece name (U+2654 .. U+265F)
pieces ==
  [white_king |-> 9812, white_queen |-> 9813, white_rook |-> 9814,
   white_bishop |-> 9815, white_knight |-> 9816, white_pawn |-> 9817,
   black_king |-> 9818, black_queen |-> 9819, black_rook |-> 9820,
   black_bishop |-> 9821, black_knight |-> 9822, black_pawn |-> 9823]

\* type Piece struct { color string; symbol rune }
Piece(color, name) == [color |-> color, symbol |-> pieces[name]]

\* the nil *Piece of an empty cell
Nil == [color |-> "nil", symbol |-> 0]

BackRank(c) ==
  <<Piece(c, c \o "_rook"), Piece(c, c \o "_knight"), Piece(c, c \o "_bishop"),
    Piece(c, c \o "_queen"), Piece(c, c \o "_king"), Piece(c, c \o "_bishop"),
    Piece(c, c \o "_knight"), Piece(c, c \o "_rook")>>

\* NewGame: g.board, indexed board[y][x] with y, x in 0..7
NewGameBoard ==
  [y \in Rows |->
    [x \in Cols |->
      CASE y = 0 -> BackRank("black")[x + 1]
        [] y = 1 -> Piece("black", "black_pawn")
        [] y = 6 -> Piece("white", "white_pawn")
        [] y = 7 -> BackRank("white")[x + 1]
        [] OTHER -> Nil]]

\* NewGame: the Game value after construction
NewGame ==
  [board |-> NewGameBoard,
   currentPlayer |-> "white",
   gameOver |-> FALSE,
   cursorX |-> 0,
   cursorY |-> 0,
   selectedX |-> -1,
   selectedY |-> -1,
   message |-> "Welcome! White's turn. Press 'c' to change theme.",
   legalMoves |-> {},
   currentThemeIndex |-> 0]

(***************************************************************************)
(* The move generator.  legalMoves is a map keyed "x,y"; it is modelled as *)
(* the set of its keys <<x, y>>.                                           *)
(***************************************************************************)
OnBoard(y, x) == x >= 0 /\ x < BoardSize /\ y >= 0 /\ y < BoardSize

\* addMove: the key added for a destination
addMove(x, y) == {<<x, y>>}

\* a faulty addPawnMoves: the two-square advance does not need the square in
\* between to be empty
addPawnMoves_jumps(b, y, x, color) ==
  LET dir == IF color = "black" THEN 1 ELSE -1
      startRow == IF color = "black" THEN 1 ELSE 6
      ny == y + dir
      nny == y + 2 * dir
      forward ==
        (IF ny >= 0 /\ ny < BoardSize /\ b[ny][x] = Nil THEN addMove(x, ny) ELSE {})
        \cup
        (IF y = startRow /\ nny >= 0 /\ nny < BoardSize /\ b[nny][x] = Nil
         THEN addMove(x, nny) ELSE {})
      capture(dx) ==
        LET nx == x + dx
        IN IF nx >= 0 /\ nx < BoardSize /\ ny >= 0 /\ ny < BoardSize
           THEN IF b[ny][nx] # Nil /\ b[ny][nx].color # color
                THEN addMove(nx, ny) ELSE {}
           ELSE {}
  IN forward \cup capture(-1) \cup capture(1)

\* a faulty addPawnMoves: the two-square advance is left out
addPawnMoves_noDouble(b, y, x, color) ==
  LET dir == IF color = "black" THEN 1 ELSE -1
      ny == y + dir
      forward ==
        IF ny >= 0 /\ ny < BoardSize /\ b[ny][x] = Nil THEN addMove(x, ny) ELSE {}
      capture(dx) ==
        LET nx == x + dx
        IN IF nx >= 0 /\ nx < BoardSize /\ ny >= 0 /\ ny < BoardSize
           THEN IF b[ny][nx] # Nil /\ b[ny][nx].color # color
                THEN addMove(nx, ny) ELSE {}
           ELSE {}
  IN forward \cup capture(-1) \cup capture(1)

addPawnMoves(b, y, x, color) ==
  LET dir == IF color = "black" THEN 1 ELSE -1
      startRow == IF color = "black" THEN 1 ELSE 6
      ny == y + dir
      nny == y + 2 * dir
      forward ==
        IF ny >= 0 /\ ny < BoardSize /\ b[ny][x] = Nil
        THEN addMove(x, ny) \cup
             (IF y = startRow /\ nny >= 0 /\ nny < BoardSize /\ b[nny][x] = Nil
              THEN addMove(x, nny) ELSE {})
        ELSE {}
      capture(dx) ==
        LET nx == x + dx
        IN IF nx >= 0 /\ nx < BoardSize /\ ny >= 0 /\ ny < BoardSize
           THEN IF b[ny][nx] # Nil /\ b[ny][nx].color # color
                THEN addMove(nx, ny) ELSE {}
           ELSE {}
  IN forward \cup capture(-1) \cup capture(1)

\* a faulty ray: the loop does not stop after a capture
RECURSIVE SlideRay_noBreak(_, _, _, _, _, _, _)
SlideRay_noBreak(b, y, x, color, dy, dx, d) ==
  IF d >= BoardSize THEN {}
  ELSE LET ny == y + d * dy
           nx == x + d * dx
       IN IF nx < 0 \/ nx >= BoardSize \/ ny < 0 \/ ny >= BoardSize THEN {}
          ELSE IF b[ny][nx] # Nil /\ b[ny][nx].color = color THEN {}
               ELSE addMove(nx, ny) \cup SlideRay_noBreak(b, y, x, color, dy, dx, d + 1)

\* one ray of addSlidingMoves: the inner loop from distance d on
RECURSIVE SlideRay(_, _, _, _, _, _, _)
SlideRay(b, y, x, color, dy, dx, d) ==
  IF d >= BoardSize THEN {}
  ELSE LET ny == y + d * dy
           nx == x + d * dx
       IN IF nx < 0 \/ nx >= BoardSize \/ ny < 0 \/ ny >= BoardSize THEN {}
          ELSE IF b[ny][nx] # Nil
               THEN IF b[ny][nx].color # color THEN addMove(nx, ny) ELSE {}
               ELSE addMove(nx, ny) \cup SlideRay(b, y, x, color, dy, dx, d + 1)

addSlidingMoves(b, y, x, color, yDirs, xDirs) ==
  UNION {SlideRay(b, y, x, color, yDirs[i], xDirs[i], 1) : i \in DOMAIN yDirs}

\* a faulty addKnightMoves: the colour of the target is not looked at
addKnightMoves_anyTarget(b, y, x, color) ==
  LET yMoves == <<-2, -2, -1, -1, 1, 1, 2, 2>>
      xMoves == <<-1, 1, -2, 2, -2, 2, -1, 1>>
  IN UNION {LET ny == y + yMoves[i]
                nx == x + xMoves[i]
            IN IF OnBoard(ny, nx) THEN addMove(nx, ny) ELSE {}
            : i \in DOMAIN yMoves}

addKnightMoves(b, y, x, color) ==
  LET yMoves == <<-2, -2, -1, -1, 1, 1, 2, 2>>
      xMoves == <<-1, 1, -2, 2, -2, 2, -1, 1>>
  IN UNION {LET ny == y + yMoves[i]
                nx == x + xMoves[i]
            IN IF OnBoard(ny, nx) /\ (b[ny][nx] = Nil \/ b[ny][nx].color # color)
               THEN addMove(nx, ny) ELSE {}
            : i \in DOMAIN yMoves}

addKingMoves(b, y, x, color) ==
  UNION {LET ny == y + d[1]
             nx == x + d[2]
         IN IF OnBoard(ny, nx) /\ (b[ny][nx] = Nil \/ b[ny][nx].color # color)
            THEN addMove(nx, ny) ELSE {}
         : d \in {dd \in (-1 .. 1) \X (-1 .. 1) : ~(dd[1] = 0 /\ dd[2] = 0)}}

RookY == <<-1, 1, 0, 0>>
RookX == <<0, 0, -1, 1>>
BishopY == <<-1, -1, 1, 1>>
BishopX == <<-1, 1, -1, 1>>
QueenY == <<-1, 1, 0, 0, -1, -1, 1, 1>>
QueenX == <<0, 0, -1, 1, -1, 1, -1, 1>>

\* calculateLegalMoves: the new value of g.legalMoves
calculateLegalMoves(b, y, x) ==
  LET piece == b[y][x]
      s == piece.symbol
  IN IF piece = Nil THEN {}
     ELSE CASE s = pieces["white_pawn"] -> addPawnMoves(b, y, x, "white")
            [] s = pieces["black_pawn"] -> addPawnMoves(b, y, x, "black")
            [] s \in {pieces["white_rook"], pieces["black_rook"]} ->
                 addSlidingMoves(b, y, x, piece.color, RookY, RookX)
            [] s \in {pieces["white_bishop"], pieces["black_bishop"]} ->
                 addSlidingMoves(b, y, x, piece.color, BishopY, BishopX)
            [] s \in {pieces["white_queen"], pieces["black_queen"]} ->
                 addSlidingMoves(b, y, x, piece.color, QueenY, QueenX)
            [] s \in {pieces["white_knight"], pieces["black_knight"]} ->
                 addKnightMoves(b, y, x, piece.color)
            [] s \in {pieces["white_king"], pieces["black_king"]} ->
                 addKingMoves(b, y, x, piece.color)
            [] OTHER -> {}

(***************************************************************************)
(* Move notation.  A Go string is the sequence of its bytes.               *)
(***************************************************************************)
\* uint8 arithmetic of move[i] - 'a' and move[i] - '0'
ByteSub(a, b) == (a - b) % 256

\* the decimal digits of n >= 0, as bytes
RECURSIVE Digits(_)
Digits(n) == IF n < 10 THEN <<48 + n>> ELSE Digits(n \div 10) \o <<48 + (n % 10)>>

\* fmt verb %d
FmtD(n) == IF n < 0 THEN <<45>> \o Digits(-n) ELSE Digits(n)

\* fmt verb %c of a rune below U+0080 (one byte)
FmtC(r) == <<r>>

\* a faulty encoding: the files are written as 'A'..'H'
EncodeMove_upperFile(fromY, fromX, toY, toX) ==
  FmtC(65 + fromX) \o FmtD(8 - fromY) \o FmtC(65 + toX) \o FmtD(8 - toY)

\* a faulty encoding: the rank is row+1 instead of 8-row
EncodeMove_rowPlusOne(fromY, fromX, toY, toX) ==
  FmtC(97 + fromX) \o FmtD(fromY + 1) \o FmtC(97 + toX) \o FmtD(toY + 1)
\* a faulty encoding: the destination is written before the source
EncodeMove_destinationFirst(fromY, fromX, toY, toX) ==
  FmtC(97 + toX) \o FmtD(8 - toY) \o FmtC(97 + fromX) \o FmtD(8 - fromY)

\* handleMouseClick: moveStr := fmt.Sprintf("%c%d%c%d", 'a'+rune(selectedX), 8-selectedY, 'a'+rune(x), 8-y)
EncodeMove(fromY, fromX, toY, toX) ==
  FmtC(97 + fromX) \o FmtD(8 - fromY) \o FmtC(97 + toX) \o FmtD(8 - toY)

\* a faulty parseMove: the row is rank-1 instead of 8-rank
parseMove_rankMinusOne(move) ==
  IF Len(move) # 4
  THEN [fromRow |-> 0, fromCol |-> 0, toRow |-> 0, toCol |-> 0, ok |-> FALSE]
  ELSE LET fromCol == ByteSub(move[1], 97)
           fromRow == ByteSub(move[2], 48) - 1
           toCol == ByteSub(move[3], 97)
           toRow == ByteSub(move[4], 48) - 1
       IN IF fromCol < 0 \/ fromCol > 7 \/ fromRow < 0 \/ fromRow > 7
             \/ toCol < 0 \/ toCol > 7 \/ toRow < 0 \/ toRow > 7
          THEN [fromRow |-> 0, fromCol |-> 0, toRow |-> 0, toCol |-> 0, ok |-> FALSE]
          ELSE [fromRow |-> fromRow, fromCol |-> fromCol,
                toRow |-> toRow, toCol |-> toCol, ok |-> TRUE]

\* parseMove: (fromRow, fromCol, toRow, toCol, ok)
parseMove(move) ==
  IF Len(move) # 4
  THEN [fromRow |-> 0, fromCol |-> 0, toRow |-> 0, toCol |-> 0, ok |-> FALSE]
  ELSE LET fromCol == ByteSub(move[1], 97)
           fromRow == 8 - ByteSub(move[2], 48)
           toCol == ByteSub(move[3], 97)
           toRow == 8 - ByteSub(move[4], 48)
       IN IF fromCol < 0 \/ fromCol > 7 \/ fromRow < 0 \/ fromRow > 7
             \/ toCol < 0 \/ toCol > 7 \/ toRow < 0 \/ toRow > 7
          THEN [fromRow |-> 0, fromCol |-> 0, toRow |-> 0, toCol |-> 0, ok |-> FALSE]
          ELSE [fromRow |-> fromRow, fromCol |-> fromCol,
                toRow |-> toRow, toCol |-> toCol, ok |-> TRUE]

\* the bytes strings.TrimSpace removes (ASCII white space)
IsSpace(c) == c \in {9, 10, 11, 12, 13, 32}

RECURSIVE TrimLeft(_)
TrimLeft(s) == IF s # <<>> /\ IsSpace(Head(s)) THEN TrimLeft(Tail(s)) ELSE s

RECURSIVE TrimRight(_)
TrimRight(s) ==
  IF s # <<>> /\ IsSpace(s[Len(s)]) THEN TrimRight(SubSeq(s, 1, Len(s) - 1)) ELSE s

\* strings.TrimSpace
TrimSpace(s) == TrimRight(TrimLeft(s))

(***************************************************************************)
(* applyMove and handleMouseClick, as functions of the Game value g.       *)
(***************************************************************************)
IsKing(piece) ==
  piece # Nil /\ (piece.symbol = pieces["white_king"] \/ piece.symbol = pieces["black_king"])

\* a faulty applyMove: the capture of any piece ends the game
applyMove_anyCapture(g, fromY, fromX, toY, toX) ==
  LET piece == g.board[fromY][fromX]
      targetPiece == g.board[toY][toX]
      g1 == IF targetPiece # Nil
            THEN [g EXCEPT !.gameOver = TRUE,
                           !.message = "Game Over! " \o g.currentPlayer \o " wins."]
            ELSE g
      g2 == [g1 EXCEPT !.board[toY][toX] = piece]
      g3 == [g2 EXCEPT !.board[fromY][fromX] = Nil]
  IN IF g3.currentPlayer = "white"
     THEN [g3 EXCEPT !.currentPlayer = "black", !.message = "Black's turn."]
     ELSE [g3 EXCEPT !.currentPlayer = "white", !.message = "White's turn."]

\* a faulty applyMove: gameOver is assigned the outcome of the king check
applyMove_assignsGameOver(g, fromY, fromX, toY, toX) ==
  LET piece == g.board[fromY][fromX]
      targetPiece == g.board[toY][toX]
      g1 == IF IsKing(targetPiece)
            THEN [g EXCEPT !.gameOver = TRUE,
                           !.message = "Game Over! " \o g.currentPlayer \o " wins."]
            ELSE [g EXCEPT !.gameOver = FALSE]
      g2 == [g1 EXCEPT !.board[toY][toX] = piece]
      g3 == [g2 EXCEPT !.board[fromY][fromX] = Nil]
  IN IF g3.currentPlayer = "white"
     THEN [g3 EXCEPT !.currentPlayer = "black", !.message = "Black's turn."]
     ELSE [g3 EXCEPT !.currentPlayer = "white", !.message = "White's turn."]

\* a faulty applyMove: the source cell is not cleared
applyMove_keepsSource(g, fromY, fromX, toY, toX) ==
  LET piece == g.board[fromY][fromX]
      targetPiece == g.board[toY][toX]
      g1 == IF IsKing(targetPiece)
            THEN [g EXCEPT !.gameOver = TRUE,
                           !.message = "Game Over! " \o g.currentPlayer \o " wins."]
            ELSE g
      g2 == [g1 EXCEPT !.board[toY][toX] = piece]
  IN IF g2.currentPlayer = "white"
     THEN [g2 EXCEPT !.currentPlayer = "black", !.message = "Black's turn."]
     ELSE [g2 EXCEPT !.currentPlayer = "white", !.message = "White's turn."]

\* a faulty applyMove: the source cell is cleared before the destination is
\* written
applyMove_clearFirst(g, fromY, fromX, toY, toX) ==
  LET piece == g.board[fromY][fromX]
      targetPiece == g.board[toY][toX]
      g1 == IF IsKing(targetPiece)
            THEN [g EXCEPT !.gameOver = TRUE,
                           !.message = "Game Over! " \o g.currentPlayer \o " wins."]
            ELSE g
      g2 == [g1 EXCEPT !.board[fromY][fromX] = Nil]
      g3 == [g2 EXCEPT !.board[toY][toX] = piece]
  IN IF g3.currentPlayer = "white"
     THEN [g3 EXCEPT !.currentPlayer = "black", !.message = "Black's turn."]
     ELSE [g3 EXCEPT !.currentPlayer = "white", !.message = "White's turn."]

\* applyMove, the statements one by one: the king check on the destination
KingCheck(g, toY, toX) ==
  IF IsKing(g.board[toY][toX])
  THEN [g EXCEPT !.gameOver = TRUE,
                 !.message = "Game Over! " \o g.currentPlayer \o " wins."]
  ELSE g

\* g.board[toY][toX] = piece
WriteTo(g, toY, toX, piece) == [g EXCEPT !.board[toY][toX] = piece]

\* g.board[fromY][fromX] = nil
ClearFrom(g, fromY, fromX) == [g EXCEPT !.board[fromY][fromX] = Nil]
\* applyMove that leaves the turn with the player who moved
SwitchPlayer_keepsTurn(g) ==
  IF g.currentPlayer = "white"
  THEN [g EXCEPT !.message = "Black's turn."]
  ELSE [g EXCEPT !.message = "White's turn."]

\* Switch player
SwitchPlayer(g) ==
  IF g.currentPlayer = "white"
  THEN [g EXCEPT !.currentPlayer = "black", !.message = "Black's turn."]
  ELSE [g EXCEPT !.currentPlayer = "white", !.message = "White's turn."]

\* applyMove: the statements in order (the lock is held throughout)
applyMove(g, fromY, fromX, toY, toX) ==
  LET piece == g.board[fromY][fromX]
      g1 == KingCheck(g, toY, toX)
      g2 == WriteTo(g1, toY, toX, piece)
      g3 == ClearFrom(g2, fromY, fromX)
  IN SwitchPlayer(g3)

\* what a call of handleMouseClick leaves behind: the Game value, the string
\* returned, and whether (and with what) applyMove was called
Outcome(g, ret, applied, fromY, fromX, toY, toX) ==
  [g |-> g, ret |-> ret, applied |-> applied,
   fromY |-> fromY, fromX |-> fromX, toY |-> toY, toX |-> toX]

\* a faulty handleMouseClick: with a piece selected, the clicked square is
\* not looked up in the legal destinations
SelectOrMove_anyDestination(g) ==
  LET x == g.cursorX
      y == g.cursorY
  IN IF g.selectedX # -1
     THEN LET moveStr == EncodeMove(g.selectedY, g.selectedX, y, x)
              g1 == applyMove(g, g.selectedY, g.selectedX, y, x)
          IN Outcome([g1 EXCEPT !.selectedX = -1, !.selectedY = -1,
                                !.legalMoves = {}],
                     moveStr, TRUE, g.selectedY, g.selectedX, y, x)
     ELSE LET piece == g.board[y][x]
          IN IF piece # Nil /\ piece.color = g.currentPlayer
             THEN Outcome([g EXCEPT !.selectedX = x, !.selectedY = y,
                                    !.message = "Piece selected. Click a destination square.",
                                    !.legalMoves = calculateLegalMoves(g.board, y, x)],
                          <<>>, FALSE, 0, 0, 0, 0)
             ELSE Outcome([g EXCEPT !.message = "Select one of your own pieces."],
                          <<>>, FALSE, 0, 0, 0, 0)

\* a faulty handleMouseClick: the selection and the legal destinations are
\* not cleared after a move
SelectOrMove_keepsSelection(g) ==
  LET x == g.cursorX
      y == g.cursorY
  IN IF g.selectedX # -1
     THEN IF <<x, y>> \in g.legalMoves
          THEN LET moveStr == EncodeMove(g.selectedY, g.selectedX, y, x)
                   g1 == applyMove(g, g.selectedY, g.selectedX, y, x)
               IN Outcome(g1, moveStr, TRUE, g.selectedY, g.selectedX, y, x)
          ELSE Outcome([g EXCEPT !.selectedX = -1, !.selectedY = -1,
                                 !.legalMoves = {},
                                 !.message = "Move cancelled."],
                       <<>>, FALSE, 0, 0, 0, 0)
     ELSE LET piece == g.board[y][x]
          IN IF piece # Nil /\ piece.color = g.currentPlayer
             THEN Outcome([g EXCEPT !.selectedX = x, !.selectedY = y,
                                    !.message = "Piece selected. Click a destination square.",
                                    !.legalMoves = calculateLegalMoves(g.board, y, x)],
                          <<>>, FALSE, 0, 0, 0, 0)
             ELSE Outcome([g EXCEPT !.message = "Select one of your own pieces."],
                          <<>>, FALSE, 0, 0, 0, 0)

\* a faulty handleMouseClick: with nothing selected, a piece of either colour
\* can be selected
SelectOrMove_anyPiece(g) ==
  LET x == g.cursorX
      y == g.cursorY
  IN IF g.selectedX # -1
     THEN IF <<x, y>> \in g.legalMoves
          THEN LET moveStr == EncodeMove(g.selectedY, g.selectedX, y, x)
                   g1 == applyMove(g, g.selectedY, g.selectedX, y, x)
               IN Outcome([g1 EXCEPT !.selectedX = -1, !.selectedY = -1,
                                     !.legalMoves = {}],
                          moveStr, TRUE, g.selectedY, g.selectedX, y, x)
          ELSE Outcome([g EXCEPT !.selectedX = -1, !.selectedY = -1,
                                 !.legalMoves = {},
                                 !.message = "Move cancelled."],
                       <<>>, FALSE, 0, 0, 0, 0)
     ELSE LET piece == g.board[y][x]
          IN IF piece # Nil
             THEN Outcome([g EXCEPT !.selectedX = x, !.selectedY = y,
                                    !.message = "Piece selected. Click a destination square.",
                                    !.legalMoves = calculateLegalMoves(g.board, y, x)],
                          <<>>, FALSE, 0, 0, 0, 0)
             ELSE Outcome([g EXCEPT !.message = "Select one of your own pieces."],
                          <<>>, FALSE, 0, 0, 0, 0)

\* handleMouseClick on the local player's turn: the branch on g.selectedX
SelectOrMove(g) ==
  LET x == g.cursorX
      y == g.cursorY
  IN IF g.selectedX # -1
     THEN IF <<x, y>> \in g.legalMoves
          THEN LET moveStr == EncodeMove(g.selectedY, g.selectedX, y, x)
                   g1 == applyMove(g, g.selectedY, g.selectedX, y, x)
               IN Outcome([g1 EXCEPT !.selectedX = -1, !.selectedY = -1,
                                     !.legalMoves = {}],
                          moveStr, TRUE, g.selectedY, g.selectedX, y, x)
          ELSE Outcome([g EXCEPT !.selectedX = -1, !.selectedY = -1,
                                 !.legalMoves = {},
                                 !.message = "Move cancelled."],
                       <<>>, FALSE, 0, 0, 0, 0)
     ELSE LET piece == g.board[y][x]
          IN IF piece # Nil /\ piece.color = g.currentPlayer
             THEN Outcome([g EXCEPT !.selectedX = x, !.selectedY = y,
                                    !.message = "Piece selected. Click a destination square.",
                                    !.legalMoves = calculateLegalMoves(g.board, y, x)],
                          <<>>, FALSE, 0, 0, 0, 0)
             ELSE Outcome([g EXCEPT !.message = "Select one of your own pieces."],
                          <<>>, FALSE, 0, 0, 0, 0)

\* a faulty handleMouseClick: the turn is not checked
handleMouseClick_noTurnCheck(g, playerColor) == SelectOrMove(g)

handleMouseClick(g, playerColor) ==
  IF g.currentPlayer # playerColor
  THEN Outcome([g EXCEPT !.message = "Not your turn!"], <<>>, FALSE, 0, 0, 0, 0)
  ELSE SelectOrMove(g)

(***************************************************************************)
(* The processes.  "host" plays white and "joiner" plays black (main).     *)
(* procs is the set of processes that run; a process whose peer does not   *)
(* run talks to an arbitrary environment.                                  *)
(***************************************************************************)
VARIABLES
  procs,     \* the processes started
  game,      \* game[p]: the Game value of process p
  inputPc,   \* input loop of play: "top" (loop condition), "poll" (PollEvent),
             \* "exited" (play returned, the process ends), "panicked"
  readerPc,  \* reader goroutine: "reading" (ReadString) or "returned"
  stale,     \* stale[p]: the reader wrote gameOver and the input loop has not
             \* synchronised with it since (its read of gameOver is a data race)
  wire,      \* wire[p]: the lines written towards p and not yet read, oldest first
  eof,       \* eof[p]: the far end of p's connection is closed
  nMoves,    \* moves originated so far (local moves and environment lines)
  lock,      \* lock[p]: who holds g.lock: "free", "input" or "reader"
  frame,     \* frame[p][a]: the locals of the applyMove call activity a is in
  hb,        \* hb[p]: the reader has unlocked g.lock since it last wrote
             \* gameOver, so a later Lock by the input loop orders that write
             \* before the loop's reads
  arg,       \* argument of the pure function under check
  res        \* its result

lockVars == <<lock, frame, hb>>
sysVars == <<procs, game, inputPc, readerPc, stale, wire, eof, nMoves, lockVars>>
fnVars == <<arg, res>>
vars == <<procs, game, inputPc, readerPc, stale, wire, eof, nMoves, lockVars, arg, res>>

Peers == {"host", "joiner"}

\* main: player = "white" after Accept, "black" after Dial
player(p) == IF p = "host" THEN "white" ELSE "black"

Other(p) == IF p = "host" THEN "joiner" ELSE "host"

\* the process is running: play has neither returned nor panicked
Alive(p) == p \in procs /\ inputPc[p] \notin {"exited", "panicked"}

\* the two activities of a process: the input loop and the reader goroutine
Activities == {"input", "reader"}

\* no applyMove call in progress
NoFrame == [fromY |-> -1, fromX |-> -1, toY |-> -1, toX |-> -1, piece |-> Nil,
            moveStr |-> <<>>]

Limit == IF procs = Peers THEN MaxNetMoves ELSE MaxMoves

(***************************************************************************)
(* Inputs: pointer positions (in terminal cells) and environment lines.    *)
(***************************************************************************)
\* the terminal position of the middle of board cell (x, y)
At(x, y) == <<x * squareWidth + 3, y * squareHeight + 1>>

\* against an arbitrary peer: e2 e4 d7 d5 e6
LocalPoints == {At(4, 6), At(4, 4), At(3, 1), At(3, 3), At(4, 2)}

\* in the two-peer system: e2 e4 f7 f6 d1 h5 e8
NetPoints ==
  {At(4, 6), At(4, 4), At(5, 1), At(5, 2), At(3, 7), At(7, 3), At(4, 0)}

\* where the pointer is at a click
ClickPoints == IF procs = Peers THEN NetPoints ELSE LocalPoints

\* where the pointer is at a mouse event that is no left click: positions
\* left of and above the board, and right of and below it
MovePoints == {<<-5, -3>>, <<70, 40>>}

\* the bytes of a square in algebraic notation, file in 0..7 and rank as digit
Sq(file, rank) == <<97 + file, 48 + rank>>

\* lines an arbitrary peer may send, each ending in "\n"
RemoteLines ==
  {Sq(4, 7) \o Sq(4, 5) \o <<10>>,            \* "e7e5"
   Sq(4, 1) \o Sq(4, 6) \o <<10>>,            \* "e1e6": the white king to e6
   <<32>> \o Sq(3, 7) \o Sq(3, 5) \o <<13, 10>>, \* " d7d5\r\n"
   Sq(4, 7) \o Sq(4, 7) \o <<10>>,            \* "e7e7": source = destination
   Sq(4, 9) \o Sq(4, 5) \o <<10>>,            \* "e9e5": rank out of range
   <<69, 55, 101, 53, 10>>,                   \* "E7e5": file below 'a'
   Sq(4, 7) \o <<101, 10>>,                   \* "e7e": too short
   <<10>>}                                    \* the empty line

(***************************************************************************)
(* Game.play: the input loop.                                              *)
(***************************************************************************)
\* integer division of Go (truncates towards zero), for b > 0
GoDiv(a, b) == IF a >= 0 THEN a \div b ELSE -((-a) \div b)

\* the clamping of cursorX and cursorY to 0..7
Clamp(v) == IF v < 0 THEN 0 ELSE IF v > 7 THEN 7 ELSE v

\* play, case termbox.EventMouse: the cursor assignment
SetCursor(g, mouseX, mouseY) ==
  [g EXCEPT !.cursorX = Clamp(GoDiv(mouseX, squareWidth)),
            !.cursorY = Clamp(GoDiv(mouseY, squareHeight))]

\* the process ends: the peer's reads fail once the lines in flight are read
CloseConn(p) == eof' = [eof EXCEPT ![Other(p)] = TRUE]

\* for !g.gameOver: the loop condition, then drawBoard.  The read of
\* gameOver races with a write by the reader until the loop has taken the
\* lock after it (drawBoard), so it may still yield false
LoopCheck(p) ==
  /\ Alive(p) /\ inputPc[p] = "top"
  /\ \/ /\ game[p].gameOver
        /\ inputPc' = [inputPc EXCEPT ![p] = "exited"]
        /\ CloseConn(p)
        /\ UNCHANGED stale
     \/ /\ ~game[p].gameOver \/ stale[p]
        /\ inputPc' = [inputPc EXCEPT ![p] = "poll"]
        /\ stale' = [stale EXCEPT ![p] = FALSE]
        /\ UNCHANGED eof
  /\ UNCHANGED <<procs, game, readerPc, wire, nMoves, arg, res, lockVars>>

\* case termbox.EventKey, ev.Key == termbox.KeyEsc
KeyEsc(p) ==
  /\ Alive(p) /\ inputPc[p] = "poll"
  /\ game' = [game EXCEPT ![p].gameOver = TRUE]
  /\ inputPc' = [inputPc EXCEPT ![p] = "exited"]
  /\ CloseConn(p)
  /\ UNCHANGED <<procs, readerPc, stale, wire, nMoves, arg, res, lockVars>>

\* a faulty theme key: the index is not wrapped at len(themes)
KeyTheme_noWrap(p) ==
  /\ Alive(p) /\ inputPc[p] = "poll"
  /\ game' = [game EXCEPT
                ![p].currentThemeIndex = game[p].currentThemeIndex + 1,
                ![p].message = "Press 'c' to change theme."]
  /\ inputPc' = [inputPc EXCEPT ![p] = "top"]
  /\ UNCHANGED <<procs, readerPc, stale, wire, eof, nMoves, arg, res, lockVars>>

\* case termbox.EventKey, ev.Ch == 'c' || ev.Ch == 'C'
KeyTheme(p) ==
  /\ Alive(p) /\ inputPc[p] = "poll"
  /\ game' = [game EXCEPT
                ![p].currentThemeIndex = (game[p].currentThemeIndex + 1) % NumThemes,
                ![p].message = "Press 'c' to change theme."]
  /\ inputPc' = [inputPc EXCEPT ![p] = "top"]
  /\ UNCHANGED <<procs, readerPc, stale, wire, eof, nMoves, arg, res, lockVars>>

\* any other key, and the event types play has no case for
KeyOther(p) ==
  /\ Alive(p) /\ inputPc[p] = "poll"
  /\ inputPc' = [inputPc EXCEPT ![p] = "top"]
  /\ UNCHANGED <<procs, game, readerPc, stale, wire, eof, nMoves, arg, res, lockVars>>

\* case termbox.EventMouse with ev.Key != termbox.MouseLeft
MouseMove(p) ==
  /\ Alive(p) /\ inputPc[p] = "poll"
  /\ \E pt \in MovePoints :
       game' = [game EXCEPT ![p] = SetCursor(game[p], pt[1], pt[2])]
  /\ inputPc' = [inputPc EXCEPT ![p] = "top"]
  /\ UNCHANGED <<procs, readerPc, stale, wire, eof, nMoves, arg, res, lockVars>>

\* case termbox.EventMouse with ev.Key == termbox.MouseLeft:
\* handleMouseClick, then fmt.Fprintf(conn, "%s\n", moveStr) if it returned a move
MouseClickAt(p, pt) ==
  /\ Alive(p) /\ inputPc[p] = "poll"
  /\ inputPc' = [inputPc EXCEPT ![p] = "top"]
  /\ UNCHANGED <<procs, readerPc, stale, eof, arg, res, lockVars>>
  /\ LET out == handleMouseClick(SetCursor(game[p], pt[1], pt[2]), player(p))
     IN /\ out.applied => nMoves < Limit
        /\ nMoves' = IF out.applied THEN nMoves + 1 ELSE nMoves
        /\ wire' = IF out.ret # <<>>
                   THEN [wire EXCEPT ![Other(p)] = Append(@, out.ret \o <<10>>)]
                   ELSE wire
        /\ game' = [game EXCEPT ![p] = out.g]

MouseClick(p) == \E pt \in ClickPoints : MouseClickAt(p, pt)

\* case termbox.EventError: panic(ev.Err)
EventError(p) ==
  /\ Alive(p) /\ inputPc[p] = "poll"
  /\ inputPc' = [inputPc EXCEPT ![p] = "panicked"]
  /\ CloseConn(p)
  /\ UNCHANGED <<procs, game, readerPc, stale, wire, nMoves, arg, res, lockVars>>

(***************************************************************************)
(* Game.play: the reader goroutine.                                        *)
(***************************************************************************)
\* what ReadString can return to p: the oldest line in flight from its peer,
\* or any line when the peer is the environment
Incoming(p) ==
  IF Other(p) \in procs
  THEN (IF wire[p] # <<>> THEN {Head(wire[p])} ELSE {})
  ELSE (IF nMoves < Limit THEN RemoteLines ELSE {})

\* ReadString returned a line: TrimSpace, parseMove (ok discarded), applyMove,
\* drawBoard
ReaderLineOf(p, line) ==
  /\ Alive(p) /\ readerPc[p] = "reading"
  /\ line \in Incoming(p)
  /\ UNCHANGED <<procs, inputPc, readerPc, eof, arg, res, lockVars>>
  /\ IF Other(p) \in procs
     THEN wire' = [wire EXCEPT ![p] = Tail(@)] /\ UNCHANGED nMoves
     ELSE nMoves' = nMoves + 1 /\ UNCHANGED wire
  /\ LET moveStr == TrimSpace(line)
         m == parseMove(moveStr)
         g1 == applyMove(game[p], m.fromRow, m.fromCol, m.toRow, m.toCol)
     IN /\ stale' = [stale EXCEPT ![p] = @ \/ (g1.gameOver /\ ~game[p].gameOver)]
        /\ game' = [game EXCEPT ![p] = g1]

ReaderLine(p) == \E line \in Incoming(p) : ReaderLineOf(p, line)

\* ReadString returned an error: the peer has closed the connection and
\* nothing is left to read, or the environment fails the read
ReaderError(p) ==
  /\ Alive(p) /\ readerPc[p] = "reading"
  /\ Other(p) \in procs => (wire[p] = <<>> /\ eof[p])
  /\ game' = [game EXCEPT ![p].message = "Opponent disconnected.",
                          ![p].gameOver = TRUE]
  /\ stale' = [stale EXCEPT ![p] = @ \/ ~game[p].gameOver]
  /\ readerPc' = [readerPc EXCEPT ![p] = "returned"]
  /\ UNCHANGED <<procs, inputPc, wire, eof, nMoves, arg, res, lockVars>>

(***************************************************************************)
(* Specifications.                                                         *)
(***************************************************************************)
InitSys(P) ==
  /\ procs = P
  /\ game = [p \in Peers |-> NewGame]
  /\ inputPc = [p \in Peers |-> "top"]
  /\ readerPc = [p \in Peers |-> "reading"]
  /\ stale = [p \in Peers |-> FALSE]
  /\ wire = [p \in Peers |-> <<>>]
  /\ eof = [p \in Peers |-> FALSE]
  /\ nMoves = 0
  /\ lock = [p \in Peers |-> "free"]
  /\ frame = [p \in Peers |-> [a \in Activities |-> NoFrame]]
  /\ hb = [p \in Peers |-> TRUE]

\* no function call under check
NoFn == [kind |-> "none"]

\* one process (the host or the joiner) against an arbitrary peer
Init ==
  /\ \E p \in Peers : InitSys({p})
  /\ arg = NoFn /\ res = NoFn

ProcNext(p) ==
  \/ LoopCheck(p)
  \/ KeyEsc(p)
  \/ KeyTheme(p)
  \/ KeyOther(p)
  \/ MouseMove(p)
  \/ MouseClick(p)
  \/ EventError(p)
  \/ ReaderLine(p)
  \/ ReaderError(p)

Next == \E p \in Peers : ProcNext(p)

Spec == Init /\ [][Next]_vars

\* the two-peer system: both processes run, connected to each other
InitNet ==
  /\ InitSys(Peers)
  /\ arg = NoFn /\ res = NoFn

\* the users click, quit or press keys without effect; the pointer positions
\* are ClickPoints
NetNext(p) ==
  \/ LoopCheck(p)
  \/ KeyEsc(p)
  \/ KeyOther(p)
  \/ MouseClick(p)
  \/ EventError(p)
  \/ ReaderLine(p)
  \/ ReaderError(p)

NextNet == \E p \in Peers : NetNext(p)

SpecNet == InitNet /\ [][NextNet]_vars

(***************************************************************************)
(* Game.play statement by statement.  Every Lock and Unlock of g.lock and  *)
(* every statement of applyMove is a step of its own, so the steps of the  *)
(* input loop and of the reader interleave as the two goroutines do.  The  *)
(* input loop is at "top" (loop condition), "draw" (drawBoard, before      *)
(* Lock), "drawing" (drawBoard, lock held), "poll" (PollEvent), in         *)
(* applyMove at "am_lock", "am_check", "am_to", "am_from", "am_turn", or   *)
(* at "hm_ret" (applyMove has returned to handleMouseClick).  The reader   *)
(* is at "reading" (ReadString), in applyMove, at "draw" / "drawing", or,  *)
(* after a failed read, at "lastDraw" / "lastDrawing" and then "returned". *)
(***************************************************************************)
\* where the pointer is at a click: e2 e4 d7 d5
FinePoints == {At(4, 6), At(4, 4), At(3, 1), At(3, 3)}

\* lines the peer may send: "e7e5", "e1e6" and the empty line
FineLines ==
  {Sq(4, 7) \o Sq(4, 5) \o <<10>>, Sq(4, 1) \o Sq(4, 6) \o <<10>>, <<10>>}

Pc(p, a) == IF a = "input" THEN inputPc[p] ELSE readerPc[p]

Goto(p, a, v) ==
  IF a = "input"
  THEN inputPc' = [inputPc EXCEPT ![p] = v] /\ UNCHANGED readerPc
  ELSE readerPc' = [readerPc EXCEPT ![p] = v] /\ UNCHANGED inputPc

\* a faulty drawBoard: it renders without taking the lock
drawBoardLock_noLock(l) == TRUE

\* drawBoard: g.lock.Lock() returns once the lock is free
drawBoardLock(l) == l = "free"

\* a faulty drawBoard: the Unlock is forgotten
drawBoardUnlock_forgotten(l) == l

\* drawBoard: defer g.lock.Unlock()
drawBoardUnlock(l) == "free"

\* applyMove: g.lock.Lock() returns once the lock is free
applyMoveLock(l) == l = "free"
\* a faulty applyMove: the Unlock is forgotten
applyMoveUnlock_forgotten(l) == l

\* applyMove: defer g.lock.Unlock()
applyMoveUnlock(l) == "free"

\* a Lock by activity a: the input loop's reads that follow are ordered after
\* what the reader wrote before it last unlocked
Acquire(p, a) ==
  /\ lock' = [lock EXCEPT ![p] = a]
  /\ stale' = IF a = "input" /\ hb[p] THEN [stale EXCEPT ![p] = FALSE] ELSE stale

\* for !g.gameOver: the loop condition; its read of gameOver races with the
\* reader's writes
LoopCond(p) ==
  /\ Alive(p) /\ inputPc[p] = "top"
  /\ \/ /\ game[p].gameOver
        /\ inputPc' = [inputPc EXCEPT ![p] = "exited"]
        /\ CloseConn(p)
     \/ /\ ~game[p].gameOver \/ stale[p]
        /\ inputPc' = [inputPc EXCEPT ![p] = "draw"]
        /\ UNCHANGED eof
  /\ UNCHANGED <<procs, game, readerPc, stale, wire, nMoves, arg, res, lockVars>>

\* drawBoard: g.lock.Lock()
DrawLock(p, a) ==
  /\ Alive(p) /\ Pc(p, a) \in {"draw", "lastDraw"}
  /\ drawBoardLock(lock[p])
  /\ Acquire(p, a)
  /\ Goto(p, a, IF Pc(p, a) = "draw" THEN "drawing" ELSE "lastDrawing")
  /\ UNCHANGED <<procs, game, wire, eof, nMoves, frame, hb, arg, res>>

\* drawBoard: the rendering, then the deferred Unlock
DrawUnlock(p, a) ==
  /\ Alive(p) /\ Pc(p, a) \in {"drawing", "lastDrawing"}
  /\ lock' = [lock EXCEPT ![p] = drawBoardUnlock(@)]
  /\ hb' = IF a = "reader" THEN [hb EXCEPT ![p] = TRUE] ELSE hb
  /\ Goto(p, a, IF a = "input" THEN "poll"
                ELSE IF Pc(p, a) = "drawing" THEN "reading" ELSE "returned")
  /\ UNCHANGED <<procs, game, stale, wire, eof, nMoves, frame, arg, res>>

\* case termbox.EventMouse with ev.Key == termbox.MouseLeft: handleMouseClick
\* up to its call of applyMove, or to its return if it makes none
ClickAt(p, pt) ==
  /\ Alive(p) /\ inputPc[p] = "poll"
  /\ UNCHANGED <<procs, readerPc, stale, wire, eof, lock, hb, arg, res>>
  /\ LET g0 == SetCursor(game[p], pt[1], pt[2])
         out == handleMouseClick(g0, player(p))
     IN IF out.applied
        THEN /\ nMoves < MaxFineMoves
             /\ nMoves' = nMoves + 1
             /\ game' = [game EXCEPT ![p] = g0]
             /\ frame' = [frame EXCEPT ![p]["input"] =
                            [fromY |-> out.fromY, fromX |-> out.fromX,
                             toY |-> out.toY, toX |-> out.toX,
                             piece |-> Nil, moveStr |-> out.ret]]
             /\ inputPc' = [inputPc EXCEPT ![p] = "am_lock"]
        ELSE /\ game' = [game EXCEPT ![p] = out.g]
             /\ inputPc' = [inputPc EXCEPT ![p] = "top"]
             /\ UNCHANGED <<nMoves, frame>>

Click(p) == \E pt \in FinePoints : ClickAt(p, pt)

\* handleMouseClick after applyMove has returned, then
\* fmt.Fprintf(conn, "%s\n", moveStr)
ClickReturn(p) ==
  /\ Alive(p) /\ inputPc[p] = "hm_ret"
  /\ game' = [game EXCEPT ![p].selectedX = -1, ![p].selectedY = -1,
                          ![p].legalMoves = {}]
  /\ wire' = [wire EXCEPT ![Other(p)] = Append(@, frame[p]["input"].moveStr \o <<10>>)]
  /\ frame' = [frame EXCEPT ![p]["input"] = NoFrame]
  /\ inputPc' = [inputPc EXCEPT ![p] = "top"]
  /\ UNCHANGED <<procs, readerPc, stale, eof, nMoves, lock, hb, arg, res>>

\* ReadString returned a line: TrimSpace, parseMove (ok discarded), and the
\* call of applyMove
ReadLine(p) ==
  /\ Alive(p) /\ readerPc[p] = "reading"
  /\ nMoves < MaxFineMoves
  /\ nMoves' = nMoves + 1
  /\ \E line \in FineLines :
       LET m == parseMove(TrimSpace(line))
       IN frame' = [frame EXCEPT ![p]["reader"] =
                      [fromY |-> m.fromRow, fromX |-> m.fromCol,
                       toY |-> m.toRow, toX |-> m.toCol,
                       piece |-> Nil, moveStr |-> <<>>]]
  /\ readerPc' = [readerPc EXCEPT ![p] = "am_lock"]
  /\ UNCHANGED <<procs, game, inputPc, stale, wire, eof, lock, hb, arg, res>>

\* ReadString returned an error: g.message and g.gameOver are written
ReadError(p) ==
  /\ Alive(p) /\ readerPc[p] = "reading"
  /\ game' = [game EXCEPT ![p].message = "Opponent disconnected.",
                          ![p].gameOver = TRUE]
  /\ stale' = [stale EXCEPT ![p] = @ \/ ~game[p].gameOver]
  /\ hb' = [hb EXCEPT ![p] = @ /\ game[p].gameOver]
  /\ readerPc' = [readerPc EXCEPT ![p] = "lastDraw"]
  /\ UNCHANGED <<procs, inputPc, wire, eof, nMoves, lock, frame, arg, res>>

\* applyMove: g.lock.Lock()
AmLock(p, a) ==
  /\ Alive(p) /\ Pc(p, a) = "am_lock"
  /\ applyMoveLock(lock[p])
  /\ Acquire(p, a)
  /\ Goto(p, a, "am_check")
  /\ UNCHANGED <<procs, game, wire, eof, nMoves, frame, hb, arg, res>>

\* applyMove: piece := g.board[fromY][fromX] and the king check
AmCheck(p, a) ==
  /\ Alive(p) /\ Pc(p, a) = "am_check"
  /\ LET f == frame[p][a]
         g1 == KingCheck(game[p], f.toY, f.toX)
         wrote == a = "reader" /\ g1.gameOver /\ ~game[p].gameOver
     IN /\ frame' = [frame EXCEPT ![p][a].piece = game[p].board[f.fromY][f.fromX]]
        /\ game' = [game EXCEPT ![p] = g1]
        /\ stale' = [stale EXCEPT ![p] = @ \/ wrote]
        /\ hb' = [hb EXCEPT ![p] = @ /\ ~wrote]
  /\ Goto(p, a, "am_to")
  /\ UNCHANGED <<procs, wire, eof, nMoves, lock, arg, res>>

\* applyMove: g.board[toY][toX] = piece
AmTo(p, a) ==
  /\ Alive(p) /\ Pc(p, a) = "am_to"
  /\ LET f == frame[p][a]
     IN game' = [game EXCEPT ![p] = WriteTo(game[p], f.toY, f.toX, f.piece)]
  /\ Goto(p, a, "am_from")
  /\ UNCHANGED <<procs, stale, wire, eof, nMoves, lockVars, arg, res>>

\* applyMove: g.board[fromY][fromX] = nil
AmFrom(p, a) ==
  /\ Alive(p) /\ Pc(p, a) = "am_from"
  /\ LET f == frame[p][a]
     IN game' = [game EXCEPT ![p] = ClearFrom(game[p], f.fromY, f.fromX)]
  /\ Goto(p, a, "am_turn")
  /\ UNCHANGED <<procs, stale, wire, eof, nMoves, lockVars, arg, res>>

\* applyMove: the switch of the player, then the deferred Unlock and the
\* return to the caller
AmTurn(p, a) ==
  /\ Alive(p) /\ Pc(p, a) = "am_turn"
  /\ game' = [game EXCEPT ![p] = SwitchPlayer(game[p])]
  /\ lock' = [lock EXCEPT ![p] = applyMoveUnlock(@)]
  /\ hb' = IF a = "reader" THEN [hb EXCEPT ![p] = TRUE] ELSE hb
  /\ frame' = IF a = "reader" THEN [frame EXCEPT ![p][a] = NoFrame] ELSE frame
  /\ Goto(p, a, IF a = "input" THEN "hm_ret" ELSE "draw")
  /\ UNCHANGED <<procs, stale, wire, eof, nMoves, arg, res>>

\* one process against an arbitrary peer, statement by statement
FineNext(p) ==
  \/ LoopCond(p)
  \/ KeyEsc(p)
  \/ KeyTheme(p)
  \/ KeyOther(p)
  \/ MouseMove(p)
  \/ Click(p)
  \/ ClickReturn(p)
  \/ EventError(p)
  \/ ReadLine(p)
  \/ ReadError(p)
  \/ \E a \in Activities :
       DrawLock(p, a) \/ DrawUnlock(p, a) \/ AmLock(p, a) \/ AmCheck(p, a)
         \/ AmTo(p, a) \/ AmFrom(p, a) \/ AmTurn(p, a)

NextFine == \E p \in Peers : FineNext(p)

SpecFine == Init /\ [][NextFine]_vars

(***************************************************************************)
(* The move generator alone: calculateLegalMoves applied to a board and a  *)
(* square.  The boards are positions a process can be in while its input   *)
(* loop runs: the opening position, and positions with both kings and up   *)
(* to three more pieces (an arbitrary peer can move any piece anywhere and *)
(* remove any piece, as applyMove checks nothing).                         *)
(***************************************************************************)
Kinds == {"king", "queen", "rook", "bishop", "knight", "pawn"}
Colors == {"white", "black"}
Opp(c) == IF c = "white" THEN "black" ELSE "white"

EmptyBoard == [y \in Rows |-> [x \in Cols |-> Nil]]

Place(b, sq, piece) == [b EXCEPT ![sq[1]][sq[2]] = piece]

\* squares <<y, x>> of the piece whose moves are generated
MoverSquares == {<<0, 0>>, <<7, 7>>, <<3, 3>>, <<4, 4>>, <<6, 2>>, <<1, 5>>}

\* squares <<y, x>> of the other pieces; <<-1, -1>> stands for no piece
BlockSquares ==
  {<<-1, -1>>, <<2, 3>>, <<1, 3>>, <<3, 5>>, <<3, 6>>, <<5, 5>>, <<6, 6>>, <<2, 2>>,
   <<4, 3>>, <<5, 2>>, <<5, 3>>, <<2, 4>>, <<2, 6>>, <<0, 5>>, <<3, 0>>,
   <<4, 2>>, <<2, 5>>}

HomeKing(c) == IF c = "white" THEN <<7, 4>> ELSE <<0, 4>>

\* both kings at home (the mover instead, if it is a king), the mover at m,
\* a pawn of the mover's colour at a and a rook of the other colour at o
SparseBoard(c, kind, m, a, o) ==
  LET b0 == Place(EmptyBoard, HomeKing(Opp(c)), Piece(Opp(c), Opp(c) \o "_king"))
      b1 == IF kind = "king" THEN b0
            ELSE Place(b0, HomeKing(c), Piece(c, c \o "_king"))
      b2 == Place(b1, m, Piece(c, c \o "_" \o kind))
      b3 == IF a[1] >= 0 THEN Place(b2, a, Piece(c, c \o "_pawn")) ELSE b2
  IN IF o[1] >= 0 THEN Place(b3, o, Piece(Opp(c), Opp(c) \o "_rook")) ELSE b3

GenArgs ==
  {[kind |-> "gen", board |-> NewGameBoard, y |-> y, x |-> x] : y \in Rows, x \in Cols}
  \cup
  {[kind |-> "gen", board |-> SparseBoard(q[1], q[2], q[3], q[4], q[5]),
    y |-> q[3][1], x |-> q[3][2]] :
     q \in {r \in Colors \X Kinds \X MoverSquares \X BlockSquares \X BlockSquares :
              /\ r[4] # r[3] /\ r[5] # r[3]
              /\ (r[4] = r[5] => r[4][1] < 0)}}

InitGen ==
  /\ InitSys({})
  /\ arg \in GenArgs
  /\ res = NoFn

Generate ==
  /\ arg.kind = "gen" /\ res.kind = "none"
  /\ res' = [kind |-> "gen", moves |-> calculateLegalMoves(arg.board, arg.y, arg.x)]
  /\ UNCHANGED <<sysVars, arg>>

NextGen == Generate

SpecGen == InitGen /\ [][NextGen]_vars

(***************************************************************************)
(* The move notation alone: the encoding of handleMouseClick, then         *)
(* parseMove.                                                              *)
(***************************************************************************)
CodecArgs ==
  [kind : {"move"}, fromY : Rows, fromX : Cols, toY : Rows, toX : Cols]

InitCodec ==
  /\ InitSys({})
  /\ arg \in CodecArgs
  /\ res = NoFn

Encode ==
  /\ arg.kind = "move" /\ res.kind = "none"
  /\ res' = [kind |-> "enc", str |-> EncodeMove(arg.fromY, arg.fromX, arg.toY, arg.toX)]
  /\ UNCHANGED <<sysVars, arg>>

Parse ==
  /\ res.kind = "enc"
  /\ res' = [kind |-> "dec", str |-> res.str, m |-> parseMove(res.str)]
  /\ UNCHANGED <<sysVars, arg>>

NextCodec == Encode \/ Parse

SpecCodec == InitCodec /\ [][NextCodec]_vars

(***************************************************************************)
(* Properties.                                                             *)
(***************************************************************************)
Cell(pt) == <<Clamp(GoDiv(pt[1], squareWidth)), Clamp(GoDiv(pt[2], squareHeight))>>

AllPoints == LocalPoints \cup NetPoints

ParsedLine(line) == parseMove(TrimSpace(line))

Kings(b) == {sq \in Rows \X Cols : IsKing(b[sq[1]][sq[2]])}

\* C1: in the two-peer system, whenever no line is in flight and no peer has
\* seen a read failure, the two boards are equal cell by cell and the two
\* currentPlayer values are equal (the peers applied the same moves in the
\* same order).
C1_PeersAgree ==
  (/\ wire["host"] = <<>> /\ wire["joiner"] = <<>>
   /\ readerPc["host"] = "reading" /\ readerPc["joiner"] = "reading")
  => /\ \A y \in Rows : \A x \in Cols :
          game["host"].board[y][x] = game["joiner"].board[y][x]
     /\ game["host"].currentPlayer = game["joiner"].currentPlayer

\* both peers run, nothing is in flight, and both have applied four moves
C1_Witness ==
  /\ wire["host"] = <<>> /\ wire["joiner"] = <<>>
  /\ \A p \in Peers : Alive(p) /\ readerPc[p] = "reading"
  /\ nMoves = 4
  /\ game["joiner"].board[3][7] = Piece("white", "white_queen")
  /\ game["host"].board[1][5] = Piece("black", "black_king")

\* the effect on gameOver of a call applyMove(_, _, toY, toX) made by a step
KingRule(p, toY, toX) ==
  IF IsKing(game[p].board[toY][toX])
  THEN game'[p].gameOver = TRUE
  ELSE game'[p].gameOver = game[p].gameOver

\* C2: every call of applyMove (by the reader for a line, or by a confirmed
\* click) sets gameOver if the destination held a king before the call, and
\* leaves gameOver as it was if the destination was empty or held another piece.
C2_KingCaptureEndsGame ==
  [][\A p \in Peers :
       /\ \A line \in RemoteLines \cup {Head(wire[p]) : i \in {1} \cap DOMAIN wire[p]} :
            ReaderLineOf(p, line) =>
              KingRule(p, ParsedLine(line).toRow, ParsedLine(line).toCol)
       /\ \A pt \in AllPoints :
            (MouseClickAt(p, pt)
             /\ handleMouseClick(SetCursor(game[p], pt[1], pt[2]), player(p)).applied)
            => KingRule(p, Cell(pt)[2], Cell(pt)[1])]_vars

\* the joiner has taken the white king on e6 with its d-pawn (d7 is empty)
\* and the game is over
C2_Witness ==
  /\ Cardinality(Kings(game["joiner"].board)) = 1
  /\ game["joiner"].board[2][4] = Piece("black", "black_pawn")
  /\ game["joiner"].board[1][3] = Nil
  /\ game["joiner"].gameOver
  /\ readerPc["joiner"] = "reading"

\* C3: after applyMove for a move whose destination held a king, the message
\* names the player who moved (currentPlayer before the toggle) as the winner.
C3_MessageNamesWinner ==
  [][\A p \in Peers :
       /\ \A line \in RemoteLines \cup {Head(wire[p]) : i \in {1} \cap DOMAIN wire[p]} :
            (ReaderLineOf(p, line)
             /\ IsKing(game[p].board[ParsedLine(line).toRow][ParsedLine(line).toCol]))
            => game'[p].message = "Game Over! " \o game[p].currentPlayer \o " wins."
       /\ \A pt \in AllPoints :
            (MouseClickAt(p, pt)
             /\ handleMouseClick(SetCursor(game[p], pt[1], pt[2]), player(p)).applied
             /\ IsKing(game[p].board[Cell(pt)[2]][Cell(pt)[1]]))
            => game'[p].message = "Game Over! " \o game[p].currentPlayer \o " wins."]_vars

\* C4: once gameOver is true in a process, no later step of that process
\* changes its board or its currentPlayer.
C4_GameOverIsTerminal ==
  [][\A p \in Peers :
       game[p].gameOver =>
         /\ game'[p].board = game[p].board
         /\ game'[p].currentPlayer = game[p].currentPlayer]_vars

\* C5: a click while currentPlayer is not the local player's colour changes
\* the message only (and the cursor, which the event sets before the call):
\* the board, currentPlayer, gameOver, the selected square and the legal
\* destinations are unchanged, and nothing is written to the peer.
C5_TurnEnforced ==
  [][\A p \in Peers : \A pt \in AllPoints :
       (MouseClickAt(p, pt) /\ game[p].currentPlayer # player(p))
       => /\ game'[p].board = game[p].board
          /\ game'[p].currentPlayer = game[p].currentPlayer
          /\ game'[p].gameOver = game[p].gameOver
          /\ game'[p].selectedX = game[p].selectedX
          /\ game'[p].selectedY = game[p].selectedY
          /\ game'[p].legalMoves = game[p].legalMoves
          /\ game'[p].message = "Not your turn!"
          /\ wire' = wire]_vars

\* a click was refused while a piece was selected with legal destinations
C5_Witness ==
  \E p \in Peers :
    /\ game[p].message = "Not your turn!"
    /\ game[p].currentPlayer # player(p)
    /\ game[p].selectedX # -1
    /\ <<game[p].cursorX, game[p].cursorY>> \in game[p].legalMoves

\* C6: every destination calculateLegalMoves produces lies in rows 0..7 and
\* columns 0..7 and does not hold a piece of the colour of the moving piece.
C6_DestinationsOnBoardNotOwn ==
  res.kind = "gen" =>
    \A d \in res.moves :
      /\ d[1] \in 0 .. 7 /\ d[2] \in 0 .. 7
      /\ arg.board[d[2]][d[1]].color # arg.board[arg.y][arg.x].color

\* a knight next to the edge, an own pawn on one of its squares, with moves
C6_Witness ==
  /\ res.kind = "gen" /\ res.moves # {}
  /\ arg.board[arg.y][arg.x] = Piece("white", "white_knight")
  /\ arg.y = 1 /\ arg.x = 5
  /\ arg.board[3][6] = Piece("white", "white_pawn")

\* the directions of a sliding piece, as <<dy, dx>>
Orthogonal == {<<-1, 0>>, <<1, 0>>, <<0, -1>>, <<0, 1>>}
Diagonal == {<<-1, -1>>, <<-1, 1>>, <<1, -1>>, <<1, 1>>}

RaysOf(piece) ==
  IF piece.symbol \in {pieces["white_rook"], pieces["black_rook"]} THEN Orthogonal
  ELSE IF piece.symbol \in {pieces["white_bishop"], pieces["black_bishop"]} THEN Diagonal
  ELSE IF piece.symbol \in {pieces["white_queen"], pieces["black_queen"]}
       THEN Orthogonal \cup Diagonal
  ELSE {}

\* the distances at which the ray from (y, x) in direction r is on the board
RayDists(y, x, r) == {d \in 1 .. 7 : OnBoard(y + d * r[1], x + d * r[2])}

\* the distances at which that ray meets a piece
Hits(b, y, x, r) == {d \in RayDists(y, x, r) : b[y + d * r[1]][x + d * r[2]] # Nil}

\* what the claim expects of one ray: the empty squares before the first
\* piece, and the square of that piece if it is of the other colour
ExpectedRay(b, y, x, r) ==
  {<<x + d * r[2], y + d * r[1]>> :
     d \in {e \in RayDists(y, x, r) :
              /\ \A h \in Hits(b, y, x, r) : e <= h
              /\ e \in Hits(b, y, x, r) =>
                   b[y + e * r[1]][x + e * r[2]].color # b[y][x].color}}

\* C7: for a rook, bishop or queen the destinations are, along each of its
\* rays, the empty squares before the first occupied square plus that square
\* if and only if it holds an opposing piece, and nothing else.
C7_SlidingStopsAtFirstPiece ==
  (res.kind = "gen" /\ RaysOf(arg.board[arg.y][arg.x]) # {}) =>
    res.moves = UNION {ExpectedRay(arg.board, arg.y, arg.x, r) :
                         r \in RaysOf(arg.board[arg.y][arg.x])}

\* a queen with an opposing rook on one ray, squares beyond it on the board,
\* and an own pawn on another ray
C7_Witness ==
  /\ res.kind = "gen"
  /\ arg.board[3][3] = Piece("black", "black_queen") /\ arg.y = 3 /\ arg.x = 3
  /\ arg.board[3][5] = Piece("white", "white_rook")
  /\ arg.board[5][5] = Piece("black", "black_pawn")
  /\ <<5, 3>> \in res.moves /\ <<4, 4>> \in res.moves

\* C8: for all four coordinates in 0..7 the encoded move has 4 characters and
\* parseMove returns the same coordinates with ok = true; (6,4,4,4) encodes to
\* "e2e4", and "e2e4" decodes to (6,4,4,4).
C8_NotationRoundTrip ==
  /\ res.kind \in {"enc", "dec"} =>
       /\ Len(res.str) = 4
       /\ (arg.fromY = 6 /\ arg.fromX = 4 /\ arg.toY = 4 /\ arg.toX = 4)
            <=> res.str = <<101, 50, 101, 52>>
  /\ res.kind = "dec" =>
       res.m = [fromRow |-> arg.fromY, fromCol |-> arg.fromX,
                toRow |-> arg.toY, toCol |-> arg.toX, ok |-> TRUE]

\* "e2e4" has been produced from (6,4,4,4) and parsed
C8_Witness ==
  /\ res.kind = "dec"
  /\ arg.fromY = 6 /\ arg.fromX = 4 /\ arg.toY = 4 /\ arg.toX = 4
  /\ res.str = <<101, 50, 101, 52>>
  /\ res.m.ok

\* C9: a malformed line (parseMove reports ok = false) leaves the board as it
\* was before the line.
C9_MalformedLineKeepsBoard ==
  [][\A p \in Peers : \A line \in RemoteLines :
       (ReaderLineOf(p, line) /\ ~ParsedLine(line).ok)
       => game'[p].board = game[p].board]_vars

\* C10: in the state NewGame builds, with the local player white, a click on
\* (row 6, col 4) selects the pawn and gives legal destinations that include
\* (5,4) and (4,4) and not (3,4); a following click on (4,4) moves the pawn
\* there, makes currentPlayer black, clears the selection and sends "e2e4".
C10_OpeningMove ==
  [][\A pt \in AllPoints :
       /\ (/\ MouseClickAt("host", pt)
           /\ Cell(pt) = <<4, 6>>
           /\ game["host"].board = NewGameBoard
           /\ game["host"].currentPlayer = "white"
           /\ game["host"].selectedX = -1)
          => /\ game'["host"].selectedX = 4 /\ game'["host"].selectedY = 6
             /\ <<4, 5>> \in game'["host"].legalMoves
             /\ <<4, 4>> \in game'["host"].legalMoves
             /\ <<4, 3>> \notin game'["host"].legalMoves
             /\ game'["host"].board = NewGameBoard
             /\ wire' = wire
       /\ (/\ MouseClickAt("host", pt)
           /\ Cell(pt) = <<4, 4>>
           /\ game["host"].board = NewGameBoard
           /\ game["host"].currentPlayer = "white"
           /\ game["host"].selectedX = 4 /\ game["host"].selectedY = 6
           /\ <<4, 4>> \in game["host"].legalMoves)
          => /\ game'["host"].board =
                  [NewGameBoard EXCEPT ![4][4] = Piece("white", "white_pawn"),
                                       ![6][4] = Nil]
             /\ game'["host"].currentPlayer = "black"
             /\ game'["host"].selectedX = -1 /\ game'["host"].selectedY = -1
             /\ game'["host"].legalMoves = {}
             /\ wire'["joiner"] = Append(wire["joiner"], <<101, 50, 101, 52, 10>>)]_vars

\* the host has played e2e4 as its first move
C10_Witness ==
  /\ procs = {"host"} /\ nMoves = 1
  /\ game["host"].board =
       [NewGameBoard EXCEPT ![4][4] = Piece("white", "white_pawn"), ![6][4] = Nil]
  /\ game["host"].currentPlayer = "black"
  /\ wire["joiner"] = <<<<101, 50, 101, 52, 10>>>>

ReadFailureHandled(p) ==
  /\ game'[p].gameOver
  /\ game'[p].message = "Opponent disconnected."
  /\ game'[p].board = game[p].board
  /\ inputPc'[p] = inputPc[p] /\ inputPc'[p] # "panicked"

\* C12: when the reader's read from the peer fails, gameOver becomes true,
\* the message becomes the disconnection notice, the board is unchanged and
\* the process does not panic; and the next evaluation of the input loop's
\* condition after the failure ends the loop.
C12_Disconnection ==
  [][\A p \in Peers :
       /\ ReaderError(p) => ReadFailureHandled(p)
       /\ (LoopCheck(p) /\ readerPc[p] = "returned") => inputPc'[p] = "exited"]_vars

\* the activity of p that takes the step (every step of the statement-level
\* specification moves exactly one of the two)
Stepper(p) == IF inputPc'[p] # inputPc[p] THEN "input" ELSE "reader"

\* C13: every step that writes the board, currentPlayer or gameOver of a
\* process is taken by an activity that holds the game lock of that process.
C13_WritesHoldLock ==
  [][\A p \in Peers :
       (\/ game'[p].board # game[p].board
        \/ game'[p].currentPlayer # game[p].currentPlayer
        \/ game'[p].gameOver # game[p].gameOver)
       => lock[p] = Stepper(p)]_vars

\* activity a of p is in drawBoard with the lock taken, rendering
Rendering(p, a) == Pc(p, a) \in {"drawing", "lastDrawing"}

\* activity a of p is in the middle of applyMove: the destination is written
\* and the source not yet cleared, or the board is changed and currentPlayer
\* not yet switched
MidApply(p, a) == Pc(p, a) \in {"am_from", "am_turn"}

\* C16: in every interleaving of the input loop and the reader, while one of
\* them renders in drawBoard the other is not in the middle of an applyMove
\* (and not anywhere inside applyMove's locked region).
C16_RenderExcludesApply ==
  \A p \in Peers : \A a \in Activities : \A b \in Activities :
    (Alive(p) /\ Rendering(p, a)) =>
      /\ ~MidApply(p, b)
      /\ Pc(p, b) \notin {"am_check", "am_to"}
      /\ lock[p] = a

\* the input loop waits in drawBoard for the lock while the reader, holding
\* it, has written a destination cell and not yet cleared the source
C16_Witness ==
  \E p \in Peers :
    /\ Alive(p) /\ inputPc[p] = "draw" /\ readerPc[p] = "am_from"
    /\ lock[p] = "reader"
    /\ game[p].board[3][4] = Piece("black", "black_pawn")
    /\ game[p].board[1][4] = Piece("black", "black_pawn")

\* C17: whenever the reader is blocked in ReadString it does not hold the
\* game lock, and the input loop, if it stands before a Lock (in drawBoard
\* or in applyMove), can take it.
C17_BlockedReaderHoldsNoLock ==
  \A p \in Peers :
    (Alive(p) /\ readerPc[p] = "reading") =>
      /\ lock[p] # "reader"
      /\ inputPc[p] = "draw" => ENABLED DrawLock(p, "input")
      /\ inputPc[p] = "am_lock" => ENABLED AmLock(p, "input")

\* the reader has applied a line and rendered, and waits for the next line
\* while the input loop stands before the Lock of applyMove for a local move
C17_Witness ==
  \E p \in Peers :
    /\ Alive(p) /\ readerPc[p] = "reading" /\ inputPc[p] = "am_lock"
    /\ nMoves = 2
    /\ game[p].board[3][4] = Piece("black", "black_pawn")

\* a line of the wire format: a file 'a'..'h', a rank '1'..'8', a file, a
\* rank, and one newline
WireLine(line) ==
  /\ Len(line) = 5
  /\ line[1] \in 97 .. 104 /\ line[2] \in 49 .. 56
  /\ line[3] \in 97 .. 104 /\ line[4] \in 49 .. 56
  /\ line[5] = 10

\* C14: every line a process writes to the connection is 4 characters
\* <fromFile><fromRank><toFile><toRank>, files 'a'..'h' and ranks '1'..'8',
\* and one newline; it names the squares of a confirmed local move; it is
\* written only by the click handler after its applyMove has returned (the
\* move is then on the board: destination written, source cleared), and once
\* for each such move.
C14_WireFormat ==
  [][\A p \in Peers :
       LET f == frame[p]["input"]
       IN /\ wire'[Other(p)] # wire[Other(p)] =>
               /\ inputPc[p] = "hm_ret" /\ inputPc'[p] = "top"
               /\ wire'[Other(p)] =
                    Append(wire[Other(p)],
                           <<97 + f.fromX, 48 + (8 - f.fromY),
                             97 + f.toX, 48 + (8 - f.toY), 10>>)
               /\ WireLine(wire'[Other(p)][Len(wire'[Other(p)])])
          /\ (inputPc[p] = "hm_ret" /\ inputPc'[p] # "hm_ret") =>
               Len(wire'[Other(p)]) = Len(wire[Other(p)]) + 1
          /\ (inputPc[p] # "hm_ret" /\ inputPc'[p] = "hm_ret") =>
               /\ inputPc[p] = "am_turn" /\ lock[p] = "input"
               /\ game'[p].board[f.toY][f.toX] = f.piece
               /\ game'[p].board[f.fromY][f.fromX] = Nil
               /\ wire' = wire]_vars

\* the host has played e2e4 and written "e2e4\n", in a run in which the
\* reader has read a line of the peer as well
C14_Witness ==
  /\ procs = {"host"} /\ inputPc["host"] = "top" /\ nMoves = 2
  /\ frame["host"]["input"] = NoFrame /\ lock["host"] = "free"
  /\ wire["joiner"] = <<<<101, 50, 101, 52, 10>>>>
  /\ game["host"].board[4][4] = Piece("white", "white_pawn")
  /\ game["host"].selectedX = -1

\* C15: on the local player's turn with a piece selected, a click on a legal
\* destination moves what stands on the selected square to the clicked
\* square (all other cells as before), switches currentPlayer, clears the
\* selection and the legal destinations and sends the move; a click on any
\* other square clears the selection and the legal destinations, sets the
\* message "Move cancelled.", sends nothing and leaves the board and
\* currentPlayer as they were.
C15_SelectedClick ==
  [][\A p \in Peers : \A pt \in AllPoints :
       (/\ MouseClickAt(p, pt)
        /\ game[p].currentPlayer = player(p)
        /\ game[p].selectedX # -1)
       => LET x == Cell(pt)[1]
              y == Cell(pt)[2]
              sx == game[p].selectedX
              sy == game[p].selectedY
          IN /\ game'[p].selectedX = -1 /\ game'[p].selectedY = -1
             /\ game'[p].legalMoves = {}
             /\ IF <<x, y>> \in game[p].legalMoves
                THEN /\ \A r \in Rows : \A c \in Cols :
                          game'[p].board[r][c] =
                            IF <<r, c>> = <<sy, sx>> THEN Nil
                            ELSE IF <<r, c>> = <<y, x>> THEN game[p].board[sy][sx]
                            ELSE game[p].board[r][c]
                     /\ game'[p].currentPlayer = Opp(game[p].currentPlayer)
                     /\ wire'[Other(p)] =
                          Append(wire[Other(p)],
                                 <<97 + sx, 48 + (8 - sy), 97 + x, 48 + (8 - y), 10>>)
                ELSE /\ game'[p].board = game[p].board
                     /\ game'[p].currentPlayer = game[p].currentPlayer
                     /\ game'[p].gameOver = game[p].gameOver
                     /\ game'[p].message = "Move cancelled."
                     /\ wire' = wire]_vars

\* the host has played e2e4, the peer e7e5; the host then selected its pawn
\* on e4, which has no legal destination, and its next click cancelled
C15_Witness ==
  /\ procs = {"host"} /\ nMoves = 2
  /\ wire["joiner"] = <<<<101, 50, 101, 52, 10>>>>
  /\ game["host"].board[4][4] = Piece("white", "white_pawn")
  /\ game["host"].board[3][4] = Piece("black", "black_pawn")
  /\ game["host"].message = "Move cancelled."
  /\ game["host"].selectedX = -1 /\ game["host"].legalMoves = {}
  /\ game["host"].currentPlayer = "white"

\* what the theme key leaves alone according to both readings of C18: the
\* board, currentPlayer, gameOver, the selected square, the legal
\* destinations (and the cursor and the wire), with the theme index a valid
\* index of the theme table before and after
ThemeKeyFrame(p) ==
  /\ game'[p].board = game[p].board
  /\ game'[p].currentPlayer = game[p].currentPlayer
  /\ game'[p].gameOver = game[p].gameOver
  /\ game'[p].selectedX = game[p].selectedX
  /\ game'[p].selectedY = game[p].selectedY
  /\ game'[p].legalMoves = game[p].legalMoves
  /\ game'[p].cursorX = game[p].cursorX
  /\ game'[p].cursorY = game[p].cursorY
  /\ wire' = wire
  /\ game[p].currentThemeIndex \in 0 .. (NumThemes - 1)
  /\ game'[p].currentThemeIndex \in 0 .. (NumThemes - 1)

\* C18 as stated: the theme key leaves the board, currentPlayer, gameOver,
\* the selected square, the legal destinations and the message unchanged,
\* and the theme index stays a valid index of the theme table.
C18_ThemeKeyKeepsMessage ==
  [][\A p \in Peers :
       KeyTheme(p) => (ThemeKeyFrame(p) /\ game'[p].message = game[p].message)]_vars

\* C18, amended: the theme key leaves the board, currentPlayer, gameOver, the
\* selected square and the legal destinations unchanged, moves the theme
\* index to the next index of the theme table (from the last to the first),
\* and replaces the message by "Press 'c' to change theme.".
C18_ThemeKeyCosmetic ==
  [][\A p \in Peers :
       KeyTheme(p) =>
         /\ ThemeKeyFrame(p)
         /\ game'[p].currentThemeIndex =
              IF game[p].currentThemeIndex = NumThemes - 1 THEN 0
              ELSE game[p].currentThemeIndex + 1
         /\ game'[p].message = "Press 'c' to change theme."]_vars

\* the theme key was pressed with a piece selected and on the last theme:
\* the index is back at the first theme, the selection is kept
C18_Witness ==
  \E p \in Peers :
    /\ game[p].currentThemeIndex = 0
    /\ game[p].message = "Press 'c' to change theme."
    /\ game[p].selectedX = 4 /\ game[p].selectedY = 6
    /\ game[p].legalMoves = {<<4, 5>>, <<4, 4>>}

\* C19: on the local player's turn with nothing selected, a click on an empty
\* square or on a piece of the other colour leaves the selection and the
\* legal destinations empty and the board, currentPlayer and gameOver as
\* they were, changes the message and sends nothing; a click on a piece of
\* currentPlayer's colour selects that cell and makes the legal destinations
\* the result of calculateLegalMoves for it (board, currentPlayer, gameOver
\* unchanged, nothing sent).
C19_AwaitingSelectionClick ==
  [][\A p \in Peers : \A pt \in AllPoints :
       (/\ MouseClickAt(p, pt)
        /\ game[p].currentPlayer = player(p)
        /\ game[p].selectedX = -1)
       => LET x == Cell(pt)[1]
              y == Cell(pt)[2]
              piece == game[p].board[y][x]
          IN /\ game'[p].board = game[p].board
             /\ game'[p].currentPlayer = game[p].currentPlayer
             /\ game'[p].gameOver = game[p].gameOver
             /\ wire' = wire
             /\ IF piece # Nil /\ piece.color = game[p].currentPlayer
                THEN /\ game'[p].selectedX = x /\ game'[p].selectedY = y
                     /\ game'[p].legalMoves = calculateLegalMoves(game[p].board, y, x)
                ELSE /\ game'[p].selectedX = -1 /\ game'[p].selectedY = -1
                     /\ game'[p].legalMoves = {}
                     /\ game'[p].message = "Select one of your own pieces."]_vars

\* the host, to move and with nothing selected, has clicked the black pawn
\* on d7
C19_Witness ==
  /\ procs = {"host"}
  /\ game["host"].currentPlayer = "white"
  /\ game["host"].cursorX = 3 /\ game["host"].cursorY = 1
  /\ game["host"].board[1][3] = Piece("black", "black_pawn")
  /\ game["host"].message = "Select one of your own pieces."
  /\ game["host"].selectedX = -1 /\ game["host"].legalMoves = {}

IsPawn(piece) ==
  piece.symbol \in {pieces["white_pawn"], pieces["black_pawn"]}

\* what C20 expects for the pawn on (y, x) of board b, as keys <<x, y>>
ExpectedPawn(b, y, x) ==
  LET white == b[y][x].symbol = pieces["white_pawn"]
      fy == IF white THEN y - 1 ELSE y + 1
      ffy == IF white THEN y - 2 ELSE y + 2
      start == IF white THEN 6 ELSE 1
      own == IF white THEN "white" ELSE "black"
      empty(r, c) == b[r][c] = Nil
  IN {d \in Cols \X Rows :
        \/ d = <<x, fy>> /\ empty(fy, x)
        \/ d = <<x, ffy>> /\ y = start /\ empty(fy, x) /\ empty(ffy, x)
        \/ /\ d[2] = fy /\ d[1] \in {x - 1, x + 1}
           /\ ~empty(fy, d[1]) /\ b[fy][d[1]].color # own}

\* C20: for every board and pawn square the destinations are exactly: the
\* square one forward (row-1 for white, row+1 for black) if it is on the
\* board and empty; the square two forward if the pawn is on its starting
\* row (6 for white, 1 for black) and both squares are empty; each forward
\* diagonal square if it is on the board and holds a piece of the other colour.
C20_PawnMoves ==
  (res.kind = "gen" /\ IsPawn(arg.board[arg.y][arg.x])) =>
    res.moves = ExpectedPawn(arg.board, arg.y, arg.x)

\* a white pawn on its starting square c2 with c3 empty, an own pawn on c4
\* and a black rook on d3: it can advance one square and capture on d3
C20_Witness ==
  /\ res.kind = "gen" /\ arg.y = 6 /\ arg.x = 2
  /\ arg.board[6][2] = Piece("white", "white_pawn")
  /\ arg.board[5][2] = Nil
  /\ arg.board[4][2] = Piece("white", "white_pawn")
  /\ arg.board[5][3] = Piece("black", "black_rook")
  /\ res.moves = {<<2, 5>>, <<3, 5>>}

\* the number of pieces on board b
PieceCount(b) == Cardinality({sq \in Rows \X Cols : b[sq[1]][sq[2]] # Nil})

\* the pieces there are: a colour and the rune of a piece of that colour
AllPieces == {Piece(c, c \o "_" \o k) : c \in Colors, k \in Kinds}

\* the step of p is a call of applyMove: the reader handles a line, or a
\* click confirms a move
AppliesMove(p) ==
  \/ \E line \in RemoteLines : ReaderLineOf(p, line)
  \/ \E pt \in AllPoints :
       /\ MouseClickAt(p, pt)
       /\ handleMouseClick(SetCursor(game[p], pt[1], pt[2]), player(p)).applied

\* C21: across every step (clicks, keys, lines well-formed or not, read
\* failures) every cell holds nothing or one piece, the number of pieces
\* does not grow, a step lowers it by at most one, and a step that changes
\* any cell is a call of applyMove.
C21_PieceCount ==
  [][\A p \in Peers :
       \/ game'[p].board = game[p].board
       \/ /\ AppliesMove(p)
          /\ \A y \in Rows : \A x \in Cols :
               game'[p].board[y][x] \in AllPieces \cup {Nil}
          /\ PieceCount(game'[p].board) <= PieceCount(game[p].board)
          /\ PieceCount(game'[p].board) >= PieceCount(game[p].board) - 1]_vars

\* two calls of applyMove have each removed a piece: the malformed line
\* "e9e5" emptied a8 and the line "e7e7" emptied e7
C21_Witness ==
  \E p \in Peers :
    /\ PieceCount(game[p].board) = 30
    /\ game[p].board[0][0] = Nil /\ game[p].board[1][4] = Nil
    /\ nMoves = 2

\* C22: once gameOver is true in a process, no step (local event, line of
\* the peer, read failure) makes it false again.
C22_GameOverMonotonic ==
  [][\A p \in Peers : game[p].gameOver => game'[p].gameOver]_vars

\* the read from the peer failed while the host had its e-pawn selected, and
\* the click on e4 was still applied afterwards: gameOver has stayed true
C22_Witness ==
  /\ game["host"].gameOver /\ readerPc["host"] = "returned"
  /\ game["host"].board[4][4] = Piece("white", "white_pawn")
  /\ game["host"].message = "Black's turn."

InFlight == Len(wire["host"]) + Len(wire["joiner"])

\* C24: in the two-peer system (host white, joiner black, FIFO connection)
\* no state has both peers' currentPlayer equal to their own colour, and at
\* most one move line is in flight over both directions.
C24_TurnExclusion ==
  /\ ~(\A p \in Peers : game[p].currentPlayer = player(p))
  /\ InFlight <= 1

\* the joiner's reply to the host's first move is in flight: the joiner has
\* given the turn away and the host has not yet taken it
C24_Witness ==
  /\ procs = Peers
  /\ nMoves = 2
  /\ wire["host"] # <<>> /\ wire["joiner"] = <<>>
  /\ game["joiner"].currentPlayer = "white"
  /\ game["host"].currentPlayer = "black"

\* the move a line names, as the reader decodes it
MoveOf(line) == parseMove(TrimSpace(line))

\* C25: in the two-peer system, for every line a peer writes, the source
\* square the line names held, on the sender's board before the step, a piece
\* of the sender's colour, the destination is in calculateLegalMoves for
\* that square on that board, and the step applied that move to the sender's
\* board; and for every line a peer reads and applies, the source square on
\* the receiver's board holds a piece (of the sender's colour).
C25_EmittedMovesPseudoLegal ==
  [][\A p \in Peers :
       /\ Len(wire'[Other(p)]) > Len(wire[Other(p)]) =>
            LET m == MoveOf(wire'[Other(p)][Len(wire'[Other(p)])])
                b == game[p].board
            IN /\ m.ok
               /\ b[m.fromRow][m.fromCol] # Nil
               /\ b[m.fromRow][m.fromCol].color = player(p)
               /\ <<m.toCol, m.toRow>> \in calculateLegalMoves(b, m.fromRow, m.fromCol)
               /\ game'[p].board =
                    applyMove(game[p], m.fromRow, m.fromCol, m.toRow, m.toCol).board
       /\ Len(wire'[p]) < Len(wire[p]) =>
            LET m == MoveOf(Head(wire[p]))
                b == game[p].board
            IN /\ m.ok
               /\ b[m.fromRow][m.fromCol] # Nil
               /\ b[m.fromRow][m.fromCol].color = player(Other(p))
               /\ game'[p].board =
                    applyMove(game[p], m.fromRow, m.fromCol, m.toRow, m.toCol).board]_vars

\* five lines were written and read: the last one, the host's queen taking
\* the king on f7, has been applied by the joiner
C25_Witness ==
  /\ procs = Peers
  /\ nMoves = 5
  /\ wire["host"] = <<>> /\ wire["joiner"] = <<>>
  /\ game["joiner"].board[1][5] = Piece("white", "white_queen")
  /\ game["joiner"].board[3][7] = Nil
  /\ game["host"].board[1][5] = Piece("white", "white_queen")

(***************************************************************************)
(* The game lock under fair scheduling.  The Go scheduler lets a goroutine *)
(* that can run take its next step (weak fairness of the steps inside a    *)
(* locked region), and sync.Mutex hands the lock to a goroutine that keeps *)
(* waiting for it (starvation mode: strong fairness of Lock).  Events of   *)
(* the terminal and of the connection may never come.                      *)
(***************************************************************************)
\* activity a stands before g.lock.Lock() in drawBoard or in applyMove
Waiting(p, a) == Alive(p) /\ Pc(p, a) \in {"draw", "lastDraw", "am_lock"}

\* activity a is between Lock and the deferred Unlock of drawBoard or applyMove
InLock(p, a) ==
  Pc(p, a) \in {"drawing", "lastDrawing", "am_check", "am_to", "am_from", "am_turn"}

\* g.lock.Lock() by activity a
LockStep(p, a) == DrawLock(p, a) \/ AmLock(p, a)

\* a statement of activity a inside drawBoard or applyMove, to the Unlock
LockedStep(p, a) ==
  DrawUnlock(p, a) \/ AmCheck(p, a) \/ AmTo(p, a) \/ AmFrom(p, a) \/ AmTurn(p, a)

FairLock ==
  \A p \in Peers : \A a \in Activities :
    WF_vars(LockedStep(p, a)) /\ SF_vars(LockStep(p, a))

\* one process against an arbitrary peer, statement by statement, without
\* the events that change only the theme and the cursor
LockNext(p) ==
  \/ LoopCond(p)
  \/ KeyEsc(p)
  \/ KeyOther(p)
  \/ Click(p)
  \/ ClickReturn(p)
  \/ EventError(p)
  \/ ReadLine(p)
  \/ ReadError(p)
  \/ \E a \in Activities : LockStep(p, a) \/ LockedStep(p, a)

NextLock == \E p \in Peers : LockNext(p)

\* the same, fairly scheduled
SpecLock == Init /\ [][NextLock]_vars /\ FairLock

\* no activity stands before a Lock while it holds the lock, and an activity
\* holds the lock exactly between a Lock and the Unlock of the same call
LockDiscipline ==
  \A p \in Peers : \A a \in Activities :
    /\ Waiting(p, a) => lock[p] # a
    /\ lock[p] = a <=> InLock(p, a)

\* C26 as stated: the lock discipline holds, and an activity that waits for
\* the lock eventually holds it.
C26_WaiterObtainsLock ==
  /\ []LockDiscipline
  /\ \A p \in Peers : \A a \in Activities : Waiting(p, a) ~> lock[p] = a

\* C26: no activity tries to take the lock while it holds it, every Lock of
\* applyMove and drawBoard is released before the call returns, and under
\* fair scheduling an activity that waits for the lock eventually holds it,
\* unless the process ends first (the input loop returns or panics).
C26_LockNeverDeadlocks ==
  /\ []LockDiscipline
  /\ \A p \in Peers : \A a \in Activities :
       Waiting(p, a) ~> (lock[p] = a \/ ~Alive(p))

\* the reader stands before the Lock of applyMove for a line of the peer
\* while the input loop, applying a local move, holds the lock
C26_Witness ==
  \E p \in Peers :
    /\ Alive(p) /\ readerPc[p] = "am_lock" /\ inputPc[p] = "am_turn"
    /\ lock[p] = "input"

====
